---- MODULE Spec2Model ----
(***************************************************************************)
(* A model of botsignal-tg: a scheduled script that announces newly        *)
(* graduated tokens on a Telegram channel and follows up when their market *)
(* capitalisation multiplies.  The repository holds five variants of the   *)
(* script; the model carries all of them, one per value of variant:        *)
(*   "firestore"  src/unnamed/part_000 lines 317-622 (Firestore store)     *)
(*   "file"       src/unnamed/part_000 lines 1-316   (posted_tokens.json)  *)
(*   "twitter"    src/index.js                                             *)
(*   "dune"       src/unnamed/part_001 (part_002 is the same program)      *)
(*   "timer"      src/unnamed/part_003                                     *)
(* Time is counted in hours.  A run of main is a sequence of steps, one    *)
(* per awaited stage: load, fetch, one step per candidate of the new-post  *)
(* loop, one step per stored entry of the Multiplier Checker.              *)
(***************************************************************************)
EXTENDS Integers, Sequences, FiniteSets

VARIABLES
  variant,    \* which of the five programs runs
  now,        \* wall clock, in hours
  runs,       \* how many invocations and timer passes have started
  ticks,      \* number of clock advances so far (bounded)
  store,      \* the persisted store: address -> entry
  file,       \* the raw condition of posted_tokens.json: "list" (a JSON
              \* list, whose records are store), "missing", "empty",
              \* "text" (not JSON), "notlist" (JSON, not a list)
  mem,        \* postedTokens, the in-memory mapping of the current run
  order,      \* insertion order of the keys of mem (Map iteration order)
  pc,         \* position of the process: "idle" between invocations,
              \* "fetch", "loop", "check" inside main, "tcheck" inside a
              \* timer pass, "done" when the invocation is over
  tokens,     \* the candidates of fetchTokens the new-post loop has yet to visit
  cidx,       \* position of the Multiplier Checker in order
  status,     \* how the last run ended: "none", "running", "ok", "crashed"
  loadOk,     \* whether loadPostedTokens of this run read the store
  storeAtStart, \* the persisted store when the run started
  runLog,     \* the Telegram sends of this run, in order
  missedNew,  \* history: the new-post loop passed over a candidate that
              \* met the announcement criteria
  missedFollowUp, \* history: the Multiplier Checker passed over an entry
              \* that met the follow-up criteria
  announced,  \* address -> largest multiplier delivered in a follow-up so far
  noData,     \* whether the last upstream call of this invocation came
              \* back without data (fetchTokens failed, fetchDexData null)
  firstMcap,  \* history: address -> market cap of the delivered new-token
              \* post that created the entry this invocation works on
              \* (0: no such post)
  currentMcap,  \* checkAndPostMCAP, one iteration taken alone: the market
                \* cap of currentTokenData,
  initialMcap,  \* the initialMcap of the entry under examination,
  multiplier,   \* and the multiplier computed from them (0: not yet)
  upstream,     \* fetchTokens taken alone: the records of the upstream answer
  records,      \* the token file taken alone: the array it holds
  passes,       \* the timer taken alone: the checker passes it has started
  posts         \* history, kept under the recency window: how many new-token
                \* announcements have been delivered for each address, ever

vars == <<variant, now, runs, ticks, store, file, mem, order, pc, tokens, cidx, status,
          loadOk, storeAtStart, runLog, missedNew, missedFollowUp, announced,
          noData, firstMcap, currentMcap, initialMcap, multiplier, upstream, records,
          passes, posts>>

(* The locals of one iteration of checkAndPostMCAP and of one call of      *)
(* fetchTokens, and the token file as an array.  The run of the whole      *)
(* program takes each computation as one step and leaves them alone; they  *)
(* are the state of MultiplierSpec, FetchSpec, FileSpec and TimerSpec,     *)
(* which examine the computations by themselves; posts is the history of   *)
(* WindowSpec.                                                             *)
locals == <<currentMcap, initialMcap, multiplier, upstream, records, passes, posts>>

-----------------------------------------------------------------------------
(* Bounds of the model *)

MaxTicks == 1
MaxRuns == 2
MaxTokens == 2
MaxMcap == 9

(* Program constants *)

MIN_MCAP_FILE == 50000
MAX_MCAP_FILE == 350000
MIN_MCAP_FIRESTORE == 72000
MAX_MCAP_FIRESTORE == 260000
MIN_MCAP_TWITTER == 50000
MIN_MCAP_DUNE == 70000
MIN_MCAP_TIMER == 50000
TOKEN_RETENTION_DAYS == 7
HoursPerDay == 24

Variants == {"firestore", "file", "twitter", "dune", "timer"}
Addresses == {"A", "B"}
AddrSeq == <<"A", "B">>

NoTime == -1     \* a mapping entry that carries no timestamp field
NoId == 0        \* telegramMessageId null

MIN_MCAP(v) ==
  CASE v = "firestore" -> MIN_MCAP_FIRESTORE
    [] v = "file" -> MIN_MCAP_FILE
    [] v = "twitter" -> MIN_MCAP_TWITTER
    [] v = "dune" -> MIN_MCAP_DUNE
    [] v = "timer" -> MIN_MCAP_TIMER

HasMax(v) == v \in {"firestore", "file"}

MAX_MCAP(v) == IF v = "firestore" THEN MAX_MCAP_FIRESTORE ELSE MAX_MCAP_FILE

(* Variants whose main runs checkAndPostMCAP after the new-post loop *)
HasChecker(v) == v \in {"firestore", "file"}

(* Variants whose savePostedTokens rethrows a failure to main *)
SaveRethrows(v) == v \in {"firestore", "file"}

-----------------------------------------------------------------------------
(* Market data: what fetchDexData can return for an address *)

NullData == [isNull |-> TRUE, mcap |-> 0, links |-> "none"]

McapValues(v) ==
  {MIN_MCAP(v) - 1, MIN_MCAP(v), 2 * MIN_MCAP(v)}
    \cup (CASE v = "firestore" -> {MAX_MCAP(v), 5 * MIN_MCAP(v)}
            [] v = "file" -> {MAX_MCAP(v), MAX_MCAP(v) + 1}
            [] OTHER -> {3 * MIN_MCAP(v)})

(* links: "none" no social link, "ok" links that parse as URLs, "bad" a    *)
(* link list holding a string that new URL() rejects                       *)
LinkKinds == {"none", "ok", "bad"}

(* A snapshot *)
Data(m, l) == [isNull |-> FALSE, mcap |-> m, links |-> l]

(* null, or a snapshot: every market cap with links that parse; no link at *)
(* the least eligible market cap; an unparseable link at twice that        *)
fetchDexData(v) ==
  {NullData}
    \cup {Data(m, "ok") : m \in McapValues(v)}
    \cup {Data(MIN_MCAP(v), "none"), Data(2 * MIN_MCAP(v), "bad")}

(* A variant of the eligibility test with an exclusive lower bound *)
isEligibleExclusive(v, data) ==
  /\ data.mcap > MIN_MCAP(v)
  /\ (HasMax(v) => ~(data.mcap > MAX_MCAP(v)))
  /\ data.links # "none"

isEligible(v, data) ==
  /\ ~(data.mcap < MIN_MCAP(v))
  /\ (HasMax(v) => ~(data.mcap > MAX_MCAP(v)))
  /\ data.links # "none"

(* Math.floor in place of Math.round *)
MultiplierFloor(cur, init) ==
  IF cur > 0 /\ init > 0 THEN cur \div init ELSE 1

(* Math.round(cur / init) on positive numbers: floor(cur/init + 1/2) *)
Multiplier(cur, init) ==
  IF cur > 0 /\ init > 0
    THEN (2 * cur + init) \div (2 * init)
    ELSE 1

cutoffDate(t) == t - TOKEN_RETENTION_DAYS * HoursPerDay

isValid(e, t) == e.timestamp >= cutoffDate(t)

-----------------------------------------------------------------------------
(* Mappings address -> entry.  An entry is a record                        *)
(*   [timestamp, initialMcap, telegramMessageId, maxMultiplier, tweeted]   *)
(* maxMultiplier = 0 stands for "field absent" (the file-store variants).  *)

Entry(ts, mc, id, mx) ==
  [timestamp |-> ts, initialMcap |-> mc, telegramMessageId |-> id,
   maxMultiplier |-> mx, tweeted |-> FALSE]

EmptyMap == [a \in {} |-> Entry(0, 0, 0, 0)]

MapSet(m, a, e) == [x \in (DOMAIN m) \cup {a} |-> IF x = a THEN e ELSE m[x]]

Restrict(m, S) == [x \in S |-> m[x]]

KeysInOrder(S) == SelectSeq(AddrSeq, LAMBDA a : a \in S)

OldKeys(st, t) == {a \in DOMAIN st : ~isValid(st[a], t)}

ValidKeys(st, t) == {a \in DOMAIN st : isValid(st[a], t)}

-----------------------------------------------------------------------------
(* The Token Store *)

(* The entry loadPostedTokens builds from a persisted record *)
LoadedEntry(v, e) ==
  CASE v = "firestore" ->
         [e EXCEPT !.maxMultiplier = IF e.maxMultiplier = 0 THEN 1 ELSE e.maxMultiplier,
                   !.tweeted = FALSE]
    [] v = "dune" -> Entry(NoTime, 0, NoId, 0)
    [] v = "twitter" -> [e EXCEPT !.maxMultiplier = 0]
    [] OTHER -> [e EXCEPT !.maxMultiplier = 0, !.tweeted = FALSE]

(* The mapping loadPostedTokens returns.  ok: the store was read (and, in  *)
(* the file variants, the pruned list written back; in the Firestore       *)
(* variant, every old document deleted).  Otherwise the catch block        *)
(* returns an empty mapping.                                               *)
loadPostedTokens(v, st, t, ok) ==
  IF ok
    THEN [a \in ValidKeys(st, t) |-> LoadedEntry(v, st[a])]
    ELSE EmptyMap

(* The persisted store after loadPostedTokens.  A failed load of the file  *)
(* variants leaves the file as it is; a failed load of the Firestore       *)
(* variant has deleted the first k old documents before the failure.       *)
StoreAfterLoad(v, st, t, ok, k) ==
  IF ok
    THEN Restrict(st, ValidKeys(st, t))
    ELSE IF v = "firestore"
      THEN Restrict(st, (DOMAIN st) \ {KeysInOrder(OldKeys(st, t))[i] : i \in 1..k})
      ELSE st

(* How many deletes can have succeeded before a failed Firestore load *)
FailPoints(v, st, t) ==
  IF v = "firestore" /\ OldKeys(st, t) # {}
    THEN 0..(Cardinality(OldKeys(st, t)) - 1)
    ELSE {0}

(* The record savePostedTokens of the Firestore variant writes for an entry *)
FirestoreDoc(data, t) ==
  Entry(IF data.timestamp = NoTime THEN t ELSE data.timestamp,
        data.initialMcap,
        data.telegramMessageId,
        IF data.maxMultiplier = 0 THEN 1 ELSE data.maxMultiplier)

(* The record the file variants append for an address not yet in the file *)
FileRecord(v, data, t) ==
  IF v = "dune"
    THEN Entry(t, 0, NoId, 0)
    ELSE [Entry(t, data.initialMcap, data.telegramMessageId, 0)
            EXCEPT !.tweeted = data.tweeted]

(* The persisted store after a savePostedTokens(m) whose read and write    *)
(* succeed: the Firestore variant sets every field of every entry of m     *)
(* (batch.set with all five fields, merge: true); the file variants keep   *)
(* the entries of the file and append the addresses of m it lacks.         *)
savePostedTokens(v, st, m, t) ==
  IF v = "firestore"
    THEN [a \in (DOMAIN st) \cup (DOMAIN m) |->
            IF a \in DOMAIN m THEN FirestoreDoc(m[a], t) ELSE st[a]]
    ELSE [a \in (DOMAIN st) \cup (DOMAIN m) |->
            IF a \in DOMAIN st THEN st[a] ELSE FileRecord(v, m[a], t)]

FileKinds == {"list", "missing", "empty", "text", "notlist"}

BadKinds == FileKinds \ {"list"}

(* Whether loadPostedTokens, having read a file of kind f, writes [] to    *)
(* it: the Moralis variants do for every kind, the Dune variant only for a *)
(* missing file (its catch block returns an empty Set for anything else).  *)
Resets(v, f) == IF v = "dune" THEN f = "missing" ELSE f \in BadKinds

(* Whether that write happens inside the catch block of loadPostedTokens,  *)
(* where its failure is raised to the caller                               *)
ResetInCatch(v, f) == Resets(v, f) /\ f \in {"missing", "text"}

(* Whether the read inside savePostedTokens of a file of kind f ends in an *)
(* error that is not handled as "start from an empty list": the Dune       *)
(* variant handles only ENOENT.                                            *)
SaveReadFails(v, f) == v = "dune" /\ f \in {"empty", "text", "notlist"}

(* How a call of savePostedTokens can end: "ok"; "fail", the read or the   *)
(* write failed and nothing was written; "verify", in the file variant of  *)
(* part_000 the write succeeded and the read-back after it failed.         *)
AllSaveOutcomes == {"ok", "fail", "verify"}

SaveOutcomes(v, f) ==
  IF SaveReadFails(v, f) THEN {"fail"}
  ELSE IF v = "file" THEN {"ok", "fail", "verify"} ELSE {"ok", "fail"}

Written(sv) == sv \in {"ok", "verify"}

(* Whether savePostedTokens raises to its caller *)
SaveThrows(v, sv) == sv # "ok" /\ SaveRethrows(v)

-----------------------------------------------------------------------------
(* The Notifier *)

(* sendToTelegram builds the social-link text with new URL(link) before    *)
(* its try block: a link that does not parse raises past the function.     *)
(* Otherwise the Telegram call is delivered or fails (and is caught).      *)
SendOutcomes(data) ==
  IF data.links = "bad" THEN {"threw"} ELSE {"delivered", "failed"}

(* A call of sendToTelegram: what the message says (address, market cap,   *)
(* social links, multiplier annotation), its reply target, how the call    *)
(* ended and the message_id of the message when it was delivered           *)
Msg(kind, a, data, mult, replyTo, outcome, id) ==
  [kind |-> kind, address |-> a, mcap |-> data.mcap, links |-> data.links,
   multiplier |-> mult, replyTo |-> replyTo, outcome |-> outcome, id |-> id]

(* sentMessage.message_id: Telegram numbers the messages of a chat, so a   *)
(* delivered message has an id no other message has.  The program only     *)
(* stores and passes ids on; the model gives a new message the least id    *)
(* that no entry of the store or the mapping and no message of this        *)
(* invocation holds.                                                       *)
IdsOf(m) == {m[a].telegramMessageId : a \in DOMAIN m}

UsedIds(st, m, log) ==
  IdsOf(st) \cup IdsOf(m) \cup {log[i].id : i \in 1..Len(log)}
    \cup {log[i].replyTo : i \in 1..Len(log)}

FreshId(st, m, log) ==
  CHOOSE i \in 1..(Cardinality(UsedIds(st, m, log)) + 1) :
    /\ i \notin UsedIds(st, m, log)
    /\ \A j \in 1..(i - 1) : j \in UsedIds(st, m, log)

(* Whether main records the address after sendToTelegram returned: the     *)
(* Dune variant adds it whatever happened, the others only on a result.    *)
Recorded(v, outcome) == v = "dune" \/ outcome = "delivered"

(* The entry main puts into postedTokens after a new post *)
NewEntry(v, data, id) ==
  CASE v = "firestore" -> Entry(NoTime, data.mcap, id, 1)
    [] v = "file" -> Entry(NoTime, data.mcap, id, 0)
    [] v = "twitter" -> Entry(NoTime, data.mcap, id, 0)
    [] v = "timer" -> Entry(NoTime, data.mcap, NoId, 0)
    [] v = "dune" -> Entry(NoTime, 0, NoId, 0)

(* The entry checkAndPostMCAP of the Firestore variant puts into           *)
(* postedTokens after a delivered follow-up: { ...result, maxMultiplier }  *)
(* where result is what sendToTelegram returned for the current data.      *)
FollowUpEntry(e, data, id, mult) == Entry(NoTime, data.mcap, id, mult)

(* A checker whose threshold is one too low *)
ShouldFollowUpFromOne(v, e, mult) ==
  CASE v = "firestore" ->
         mult >= 1 /\ e.telegramMessageId # NoId /\ mult > e.maxMultiplier
    [] v = "file" -> mult >= 1 /\ e.telegramMessageId # NoId
    [] OTHER -> mult >= 1

(* Whether the Multiplier Checker posts a follow-up for entry e *)
ShouldFollowUp(v, e, mult) ==
  CASE v = "firestore" ->
         mult >= 2 /\ e.telegramMessageId # NoId /\ mult > e.maxMultiplier
    [] v = "file" -> mult >= 2 /\ e.telegramMessageId # NoId
    [] OTHER -> mult >= 2

(* The reply target of a follow-up *)
ReplyTarget(v, e) == IF v = "timer" THEN NoId ELSE e.telegramMessageId

-----------------------------------------------------------------------------
(* The criteria of the specification, for the history variables *)

(* 4.4: minMcap <= mcap <= maxMcap (maxMcap unbounded in some variants)    *)
(* and socialLinks non-empty                                               *)
MeetsCriteria(v, data) ==
  /\ ~data.isNull
  /\ MIN_MCAP(v) <= data.mcap
  /\ (HasMax(v) => data.mcap <= MAX_MCAP(v))
  /\ data.links \in {"ok", "bad"}

(* 4.6: market data non-null, message id non-null, multiplier >= 2 and     *)
(* greater than the stored maxMultiplier                                   *)
MeetsFollowUp(e, data) ==
  /\ ~data.isNull
  /\ e.telegramMessageId # NoId
  /\ Multiplier(data.mcap, e.initialMcap) >= 2
  /\ Multiplier(data.mcap, e.initialMcap) > e.maxMultiplier

-----------------------------------------------------------------------------
Init ==
  /\ variant \in Variants
  /\ now = 0
  /\ ticks = 0
  /\ runs = 0
  /\ store = EmptyMap
  /\ file = "list"
  /\ mem = EmptyMap
  /\ order = <<>>
  /\ pc = "idle"
  /\ tokens = <<>>
  /\ cidx = 1
  /\ status = "none"
  /\ loadOk = TRUE
  /\ storeAtStart = EmptyMap
  /\ runLog = <<>>
  /\ missedNew = FALSE
  /\ missedFollowUp = FALSE
  /\ announced = [a \in Addresses |-> 0]
  /\ noData = FALSE
  /\ firstMcap = [a \in Addresses |-> 0]
  /\ currentMcap = 0
  /\ initialMcap = 0
  /\ multiplier = 0
  /\ upstream = <<>>
  /\ records = <<>>
  /\ passes = <<>>
  /\ posts = [a \in Addresses |-> 0]

(* The hours between two invocations: exactly the retention period, or one *)
(* hour more                                                               *)
TickDeltas ==
  {TOKEN_RETENTION_DAYS * HoursPerDay, TOKEN_RETENTION_DAYS * HoursPerDay + 1}

(* Time passes between invocations.  Only the age of the stored entries    *)
(* matters to the program, so the clock is advanced only while the store   *)
(* holds an entry: with an empty store the next invocation is at time now. *)
Tick ==
  /\ pc = "idle"
  /\ ticks < MaxTicks
  /\ store # EmptyMap
  /\ \E d \in TickDeltas : now' = now + d
  /\ ticks' = ticks + 1
  /\ UNCHANGED <<locals, variant, runs, store, file, mem, order, pc, tokens, cidx, status, loadOk,
                 storeAtStart, runLog, missedNew, missedFollowUp, announced, noData, firstMcap>>

(* loadPostedTokens writes [] to the file: it read a file that is no list  *)
(* of a kind it resets                                                     *)
LoadResets(v, f, ok) == ok /\ f # "list" /\ Resets(v, f)

(* loadPostedTokens raises: the write of [] in its catch block failed *)
LoadRaises(v, f, ok, wr) == LoadResets(v, f, ok) /\ ResetInCatch(v, f) /\ ~wr

(* A file that is no list any more: it was removed, truncated or           *)
(* overwritten between two invocations                                     *)
Corrupt ==
  /\ pc = "idle"
  /\ variant # "firestore"
  /\ \E f \in BadKinds : file' = f
  /\ store' = EmptyMap
  /\ UNCHANGED <<locals, variant, now, runs, ticks, mem, order, pc, tokens, cidx, status,
                 loadOk, storeAtStart, runLog, missedNew, missedFollowUp, announced, noData, firstMcap>>

(* main, first await: const postedTokens = await loadPostedTokens() *)
LoadStep ==
  /\ pc = "idle"
  /\ \E ok \in BOOLEAN : \E k \in FailPoints(variant, store, now) :
     \E wr \in BOOLEAN :
       /\ ok => k = 0
       /\ file = "missing" => ok      \* the read ends with ENOENT
       /\ ~LoadResets(variant, file, ok) => wr
       /\ loadOk' = ok
       /\ mem' = loadPostedTokens(variant, store, now, ok)
       /\ store' = StoreAfterLoad(variant, store, now, ok, k)
       /\ file' = IF LoadResets(variant, file, ok) /\ wr THEN "list" ELSE file
       /\ pc' = IF LoadRaises(variant, file, ok, wr) THEN "done" ELSE "fetch"
       /\ status' = IF LoadRaises(variant, file, ok, wr) THEN "crashed" ELSE "running"
  /\ order' = KeysInOrder(DOMAIN mem')
  /\ storeAtStart' = store
  /\ firstMcap' = [a \in Addresses |-> IF a \in DOMAIN mem' THEN firstMcap[a] ELSE 0]
  /\ UNCHANGED <<locals, variant, now, ticks, tokens, cidx, runLog, missedNew,
                 missedFollowUp, announced, noData>>

(* An invocation starts; the model counts them up to MaxRuns *)
Load ==
  /\ runs < MaxRuns
  /\ runs' = runs + 1
  /\ LoadStep

(* What fetchTokens can return: any list of addresses, the empty list on   *)
(* a transport failure or an empty answer.                                 *)
TokenLists == UNION {[1..n -> Addresses] : n \in 0..MaxTokens}

(* Where main goes after the new-post loop: on to checkAndPostMCAP, or to  *)
(* its end                                                                 *)
AfterLoop(v) == IF HasChecker(v) THEN "check" ELSE "done"

StatusAfterLoop(v) == IF HasChecker(v) THEN "running" ELSE "ok"

(* A fetchTokens whose failure does not empty its answer *)
fetchTokensPartial(failed, ts) == ts

(* fetchTokens: the addresses ts of the answer, or [] from its catch block *)
(* when the request or the parsing of the answer failed                    *)
fetchTokens(failed, ts) == IF failed THEN <<>> ELSE ts

(* main, second await: const tokens = await fetchTokens() *)
Fetch ==
  /\ pc = "fetch"
  /\ \E ts \in TokenLists : \E failed \in BOOLEAN :
       /\ tokens' = fetchTokens(failed, ts)
       /\ noData' = failed
       /\ pc' = IF tokens' = <<>> THEN AfterLoop(variant) ELSE "loop"
       /\ status' = IF tokens' = <<>> THEN StatusAfterLoop(variant) ELSE "running"
  /\ UNCHANGED <<locals, firstMcap, variant, now, runs, ticks, store, file, mem, order, cidx, loadOk,
                 storeAtStart, runLog, missedNew, missedFollowUp, announced>>

(* One iteration of the new-post loop that ends in continue: the address   *)
(* is in postedTokens, or it has no market data, or it is not eligible     *)
LoopSkip ==
  /\ pc = "loop"
  /\ tokens # <<>>
  /\ \/ /\ Head(tokens) \in DOMAIN mem
        /\ noData' = FALSE
        /\ UNCHANGED missedNew
     \/ /\ Head(tokens) \notin DOMAIN mem
        /\ \E r \in {<<data.isNull, MeetsCriteria(variant, data)>> :
                       data \in {d \in fetchDexData(variant) :
                                   d.isNull \/ ~isEligible(variant, d)}} :
             /\ noData' = r[1]
             /\ missedNew' = (missedNew \/ r[2])
  /\ tokens' = Tail(tokens)
  /\ UNCHANGED <<locals, firstMcap, variant, now, runs, ticks, store, file, mem, order, pc, cidx, status,
                 loadOk, storeAtStart, runLog, missedFollowUp, announced>>

(* The new-post loop ran out of candidates *)
LoopEnd ==
  /\ pc = "loop"
  /\ tokens = <<>>
  /\ pc' = AfterLoop(variant)
  /\ status' = StatusAfterLoop(variant)
  /\ noData' = FALSE
  /\ UNCHANGED <<locals, firstMcap, variant, now, runs, ticks, store, file, mem, order, tokens, cidx, loadOk,
                 storeAtStart, runLog, missedNew, missedFollowUp, announced>>

(* A loop without the break: it goes on with the next candidate *)
AfterAttemptNoBreak(ts) == Tail(ts)

(* break: the candidates main still visits after an attempt *)
AfterAttempt(ts) == <<>>

(* One iteration of the new-post loop that reaches sendToTelegram, and the *)
(* break after it                                                          *)
LoopPostStep ==
  /\ pc = "loop"
  /\ tokens # <<>>
  /\ Head(tokens) \notin DOMAIN mem
  /\ \E data \in fetchDexData(variant) : \E out \in SendOutcomes(data) :
     \E sv \in AllSaveOutcomes :
       LET a == Head(tokens)
           id == IF out = "delivered" THEN FreshId(store, mem, runLog) ELSE NoId
           rec == out # "threw" /\ Recorded(variant, out)
           m2 == IF rec THEN MapSet(mem, a, NewEntry(variant, data, id)) ELSE mem
           crash == out = "threw" \/ (rec /\ SaveThrows(variant, sv))
       IN
       /\ ~data.isNull
       /\ isEligible(variant, data)
       /\ sv \in (IF rec THEN SaveOutcomes(variant, file) ELSE {"ok"})
       /\ runLog' = Append(runLog, Msg("new", a, data, 0, NoId, out, id))
       /\ mem' = m2
       /\ firstMcap' = IF out = "delivered"
                         THEN [firstMcap EXCEPT ![a] = data.mcap]
                         ELSE firstMcap
       /\ order' = IF rec THEN Append(order, a) ELSE order
       /\ store' = IF rec /\ Written(sv)
                     THEN savePostedTokens(variant, store, m2, now)
                     ELSE store
       /\ file' = IF rec /\ Written(sv) THEN "list" ELSE file
       /\ pc' = IF crash THEN "done" ELSE "loop"
       /\ status' = IF crash THEN "crashed" ELSE status
       /\ tokens' = IF crash THEN <<>> ELSE AfterAttempt(tokens)
  /\ noData' = FALSE
  /\ UNCHANGED <<variant, now, runs, ticks, cidx, loadOk, storeAtStart, missedNew,
                 missedFollowUp, announced>>

LoopPost == LoopPostStep /\ UNCHANGED locals

Max(x, y) == IF x >= y THEN x ELSE y

InChecker == pc \in {"check", "tcheck"}

(* One iteration of checkAndPostMCAP that sends nothing *)
CheckSkip ==
  /\ InChecker
  /\ cidx <= Len(order)
  /\ LET e == mem[order[cidx]]
     IN
     \E r \in {<<data.isNull, MeetsFollowUp(e, data)>> :
                 data \in {d \in fetchDexData(variant) :
                     d.isNull \/ ~ShouldFollowUp(variant, e,
                                                 Multiplier(d.mcap, e.initialMcap))}} :
       /\ noData' = r[1]
       /\ missedFollowUp' = (missedFollowUp \/ r[2])
  /\ cidx' = cidx + 1
  /\ UNCHANGED <<locals, firstMcap, variant, now, runs, ticks, store, file, mem, order, pc, tokens, status,
                 loadOk, storeAtStart, runLog, missedNew, announced>>

(* One iteration of checkAndPostMCAP that calls sendToTelegram with a      *)
(* multiplier                                                              *)
CheckPost ==
  /\ InChecker
  /\ cidx <= Len(order)
  /\ \E data \in fetchDexData(variant) : \E out \in SendOutcomes(data) :
     \E sv \in AllSaveOutcomes :
       LET a == order[cidx]
           e == mem[a]
           mult == Multiplier(data.mcap, e.initialMcap)
           id == IF out = "delivered" THEN FreshId(store, mem, runLog) ELSE NoId
           upd == variant = "firestore" /\ out = "delivered"
           m2 == IF upd THEN MapSet(mem, a, FollowUpEntry(e, data, id, mult)) ELSE mem
           crash == out = "threw" \/ (upd /\ SaveThrows(variant, sv))
       IN
       /\ ~data.isNull
       /\ ShouldFollowUp(variant, e, mult)
       /\ sv \in (IF upd THEN SaveOutcomes(variant, file) ELSE {"ok"})
       /\ runLog' = Append(runLog,
                      Msg("followup", a, data, mult, ReplyTarget(variant, e), out, id))
       /\ announced' = IF out = "delivered"
                         THEN [announced EXCEPT ![a] = Max(@, mult)]
                         ELSE announced
       /\ mem' = m2
       /\ store' = IF upd /\ Written(sv)
                     THEN savePostedTokens(variant, store, m2, now)
                     ELSE store
       /\ file' = IF upd /\ Written(sv) THEN "list" ELSE file
       /\ pc' = IF crash THEN "done" ELSE pc
       /\ status' = IF crash THEN "crashed" ELSE status
       /\ cidx' = IF crash THEN cidx ELSE cidx + 1
  /\ noData' = FALSE
  /\ UNCHANGED <<locals, firstMcap, variant, now, runs, ticks, order, tokens, loadOk, storeAtStart,
                 missedNew, missedFollowUp>>

(* checkAndPostMCAP has visited every entry: the pass, and with it the     *)
(* invocation, completes                                                   *)
CheckEnd ==
  /\ InChecker
  /\ cidx > Len(order)
  /\ pc' = "done"
  /\ status' = "ok"
  /\ noData' = FALSE
  /\ UNCHANGED <<locals, firstMcap, variant, now, runs, ticks, store, file, mem, order, tokens, cidx, loadOk,
                 storeAtStart, runLog, missedNew, missedFollowUp, announced>>

(* Variants that register a repeating timer, which keeps the process alive *)
(* after main has completed                                                *)
HasTimer(v) == v \in {"twitter", "timer"}

(* The invocation is over and its local state is gone: the process exits,  *)
(* or, in the timer variants after a normal completion, waits for its      *)
(* timer (status "ok")                                                     *)
Finish ==
  /\ pc = "done"
  /\ pc' = "idle"
  /\ status' = IF HasTimer(variant) /\ status = "ok" THEN "ok" ELSE "none"
  /\ mem' = EmptyMap
  /\ order' = <<>>
  /\ tokens' = <<>>
  /\ cidx' = 1
  /\ loadOk' = TRUE
  /\ storeAtStart' = EmptyMap
  /\ runLog' = <<>>
  /\ noData' = FALSE
  /\ UNCHANGED <<locals, firstMcap, variant, now, runs, ticks, store, file, missedNew, missedFollowUp, announced>>

(* part_003: setInterval(checkAndPostMCAP, ...) fires in a process whose   *)
(* main has completed; the pass starts with its own loadPostedTokens       *)
TimerFire ==
  /\ variant = "timer"
  /\ pc = "idle"
  /\ status = "ok"
  /\ runs < MaxRuns
  /\ runs' = runs + 1
  /\ \E ok \in BOOLEAN : \E wr \in BOOLEAN :
       /\ file = "missing" => ok
       /\ ~LoadResets(variant, file, ok) => wr
       /\ loadOk' = ok
       /\ mem' = loadPostedTokens(variant, store, now, ok)
       /\ store' = StoreAfterLoad(variant, store, now, ok, 0)
       /\ file' = IF LoadResets(variant, file, ok) /\ wr THEN "list" ELSE file
       /\ pc' = IF LoadRaises(variant, file, ok, wr) THEN "done" ELSE "tcheck"
       /\ status' = IF LoadRaises(variant, file, ok, wr) THEN "crashed" ELSE "running"
  /\ order' = KeysInOrder(DOMAIN mem')
  /\ storeAtStart' = store
  /\ firstMcap' = [a \in Addresses |-> IF a \in DOMAIN mem' THEN firstMcap[a] ELSE 0]
  /\ UNCHANGED <<locals, variant, now, ticks, tokens, cidx, runLog, missedNew,
                 missedFollowUp, announced, noData>>

Next ==
  \/ Tick
  \/ Corrupt
  \/ Load
  \/ Fetch
  \/ LoopSkip
  \/ LoopPost
  \/ LoopEnd
  \/ CheckSkip
  \/ CheckPost
  \/ CheckEnd
  \/ Finish
  \/ TimerFire

Spec == Init /\ [][Next]_vars

-----------------------------------------------------------------------------
(* The multiplier computation of checkAndPostMCAP, taken alone: one        *)
(* iteration of its loop, for every pair of small market caps              *)

McapRange == 0..MaxMcap

(* Variants that send follow-ups to Telegram *)
FollowUpVariants == {"firestore", "file", "timer"}

(* The checker is in its loop body, over a mapping with one entry whose    *)
(* initialMcap is any small number, and fetchDexData has returned a        *)
(* snapshot whose mcap is any small number                                 *)
MultiplierInit ==
  /\ variant \in FollowUpVariants
  /\ currentMcap \in McapRange
  /\ initialMcap \in McapRange
  /\ multiplier = 0
  /\ upstream = <<>>
  /\ records = <<>>
  /\ passes = <<>>
  /\ posts = [a \in Addresses |-> 0]
  /\ \E id \in {NoId, 1} :
       mem = MapSet(EmptyMap, "A",
                    Entry(0, initialMcap, id, IF variant = "firestore" THEN 1 ELSE 0))
  /\ store = mem
  /\ storeAtStart = mem
  /\ order = <<"A">>
  /\ pc = IF variant = "timer" THEN "tcheck" ELSE "check"
  /\ status = "running"
  /\ now = 0
  /\ ticks = 0
  /\ runs = 1
  /\ file = "list"
  /\ tokens = <<>>
  /\ cidx = 1
  /\ loadOk = TRUE
  /\ runLog = <<>>
  /\ missedNew = FALSE
  /\ missedFollowUp = FALSE
  /\ announced = [a \in Addresses |-> 0]
  /\ noData = FALSE
  /\ firstMcap = [a \in Addresses |-> 0]

(* const multiplier = ...; if (multiplier >= 2 && ...): the iteration      *)
(* computes the multiplier and takes the branch that posts ("post") or the *)
(* one that only logs ("skip")                                             *)
Compute ==
  /\ InChecker
  /\ multiplier = 0
  /\ multiplier' = Multiplier(currentMcap, initialMcap)
  /\ pc' = IF ShouldFollowUp(variant, mem[order[cidx]], multiplier')
             THEN "post" ELSE "skip"
  /\ UNCHANGED <<currentMcap, initialMcap, upstream, records, passes, posts, variant, now, runs, ticks, store, file,
                 mem, order, tokens, cidx, status, loadOk, storeAtStart, runLog,
                 missedNew, missedFollowUp, announced, noData, firstMcap>>

MultiplierNext == Compute

MultiplierSpec == MultiplierInit /\ [][MultiplierNext]_vars

-----------------------------------------------------------------------------
(* fetchTokens of the Firestore and file variants, taken alone: the answer *)
(* of the upstream API is a list of records, each with or without an       *)
(* address and with or without a timestamp (graduatedAt / created_at).     *)

MaxRecords == 2

NoAddress == "none"   \* a record without (or with an empty) address
BadTime == -2         \* a timestamp new Date() cannot parse: Invalid Date
FetchNow == 2         \* const now = new Date(), in hours

(* no timestamp, an unparseable one, two hours ago, one hour ago, now, in  *)
(* an hour                                                                 *)
RecordTimes == {NoTime, BadTime} \cup (0..(FetchNow + 1))

Records == [address : Addresses \cup {NoAddress}, time : RecordTimes]

UpstreamLists == UNION {[1..n -> Records] : n \in 0..MaxRecords}

(* filter(token => token.address && token.created_at) *)
validTokens(recs) ==
  SelectSeq(recs, LAMBDA token : token.address # NoAddress /\ token.time # NoTime)

(* A comparator that sorts oldest first: new Date(a) - new Date(b) *)
compareAscending(a, b) == a.time - b.time

(* (a, b) => new Date(b.created_at) - new Date(a.created_at): positive     *)
(* when b has to come before a                                             *)
compare(a, b) == b.time - a.time

RECURSIVE Insert(_, _)
Insert(s, x) ==
  IF s = <<>> THEN <<x>>
  ELSE IF compare(Head(s), x) > 0
         THEN <<x>> \o s
         ELSE <<Head(s)>> \o Insert(Tail(s), x)

(* Array.prototype.sort with a consistent comparator: stable *)
RECURSIVE sorted(_)
sorted(s) ==
  IF s = <<>> THEN <<>>
  ELSE Insert(sorted(SubSeq(s, 1, Len(s) - 1)), s[Len(s)])

Permutations(s) ==
  {[i \in 1..Len(s) |-> s[p[i]]] :
     p \in {f \in [1..Len(s) -> 1..Len(s)] :
              \A i, j \in 1..Len(s) : i # j => f[i] # f[j]}}

(* validTokens.sort(...): with an Invalid Date the comparator returns NaN  *)
(* and is not consistent, and the order is implementation-defined          *)
sortedTokens(s) ==
  IF \E i \in 1..Len(s) : s[i].time = BadTime
    THEN Permutations(s)
    ELSE {sorted(s)}

(* A fetchTokens without the recency window *)
allTokens(v, s, t) == s

(* Firestore variant: graduatedAt <= now && graduatedAt >= oneHourAgo;     *)
(* every comparison with an Invalid Date is false.  The file variant has   *)
(* no such filter.                                                         *)
recentTokens(v, s, t) ==
  IF v = "firestore"
    THEN SelectSeq(s, LAMBDA token :
                        token.time # BadTime /\ token.time <= t /\ token.time >= t - 1)
    ELSE s

(* The lists of addresses fetchTokens can return for an answer *)
FetchedTokens(v, recs, t) ==
  {[i \in 1..Len(s) |-> s[i].address] :
     s \in {recentTokens(v, q, t) : q \in sortedTokens(validTokens(recs))}}

(* main has loaded a mapping, empty or with an entry for "A", and is about *)
(* to call fetchTokens; the upstream answer is any short list of records   *)
FetchInit ==
  /\ variant \in {"firestore", "file"}
  /\ upstream \in UpstreamLists
  /\ now = FetchNow
  /\ \E seen \in SUBSET {"A"} :
       mem = [a \in seen |->
                Entry(FetchNow, MIN_MCAP(variant), 1,
                      IF variant = "firestore" THEN 1 ELSE 0)]
  /\ store = mem
  /\ storeAtStart = mem
  /\ order = KeysInOrder(DOMAIN mem)
  /\ pc = "fetch"
  /\ status = "running"
  /\ ticks = 0
  /\ runs = 1
  /\ file = "list"
  /\ tokens = <<>>
  /\ cidx = 1
  /\ loadOk = TRUE
  /\ runLog = <<>>
  /\ missedNew = FALSE
  /\ missedFollowUp = FALSE
  /\ announced = [a \in Addresses |-> 0]
  /\ noData = FALSE
  /\ firstMcap = [a \in Addresses |-> IF a \in DOMAIN mem THEN MIN_MCAP(variant) ELSE 0]
  /\ currentMcap = 0
  /\ initialMcap = 0
  /\ multiplier = 0
  /\ records = <<>>
  /\ passes = <<>>
  /\ posts = [a \in Addresses |-> 0]

(* const tokens = await fetchTokens(), computed from the upstream answer *)
FetchRecords ==
  /\ pc = "fetch"
  /\ \E ts \in FetchedTokens(variant, upstream, now) : \E failed \in BOOLEAN :
       /\ tokens' = fetchTokens(failed, ts)
       /\ noData' = failed
       /\ pc' = IF tokens' = <<>> THEN AfterLoop(variant) ELSE "loop"
       /\ status' = IF tokens' = <<>> THEN StatusAfterLoop(variant) ELSE "running"
  /\ UNCHANGED <<locals, firstMcap, variant, now, runs, ticks, store, file, mem,
                 order, cidx, loadOk, storeAtStart, runLog, missedNew,
                 missedFollowUp, announced>>

(* fetchTokens and the new-post loop that consumes its answer *)
FetchNext == FetchRecords \/ LoopSkip \/ LoopPost \/ LoopEnd

FetchSpec == FetchInit /\ [][FetchNext]_vars

-----------------------------------------------------------------------------
(* The token file of the file variant, taken alone: posted_tokens.json is  *)
(* an array of rows { address, timestamp, initialMcap, telegramMessageId } *)
(* that loadPostedTokens and savePostedTokens read whole and write whole.  *)

Row(a, ts, mc, id) ==
  [address |-> a, timestamp |-> ts, initialMcap |-> mc, telegramMessageId |-> id]

(* The keys of new Map(rows.map(token => [token.address, ...])), in the    *)
(* order of insertion: the order of the first row of each address          *)
RECURSIVE mapKeys(_)
mapKeys(rows) ==
  IF rows = <<>> THEN <<>>
  ELSE LET keys == mapKeys(SubSeq(rows, 1, Len(rows) - 1))
           a == rows[Len(rows)].address
       IN IF \E i \in 1..Len(keys) : keys[i] = a THEN keys ELSE Append(keys, a)

(* new Map(rows.map(...)): a later row of an address replaces the value of *)
(* an earlier one                                                          *)
tokenMap(rows) ==
  [a \in {rows[i].address : i \in 1..Len(rows)} |->
     LET last == CHOOSE i \in 1..Len(rows) :
                   /\ rows[i].address = a
                   /\ \A j \in (i + 1)..Len(rows) : rows[j].address # a
     IN Entry(rows[last].timestamp, rows[last].initialMcap,
              rows[last].telegramMessageId, 0)]

(* The rows of the entries of the mapping m, in its order of insertion *)
newRows(m, ord, t) ==
  [i \in 1..Len(ord) |->
     Row(ord[i], t, m[ord[i]].initialMcap, m[ord[i]].telegramMessageId)]

(* A save that appends a row for every entry of the mapping to the rows of *)
(* the file                                                                *)
appendedTokens(rows, m, ord, t) == rows \o newRows(m, ord, t)

(* savePostedTokens: tokenMap is built from the rows of the file, gets the *)
(* addresses of the mapping it does not have, and is written as an array   *)
updatedTokens(rows, m, ord, t) ==
  LET keys == mapKeys(rows)
      old == tokenMap(rows)
      added == SelectSeq(ord, LAMBDA a : a \notin DOMAIN old)
  IN [i \in 1..Len(keys) |->
        Row(keys[i], old[keys[i]].timestamp, old[keys[i]].initialMcap,
            old[keys[i]].telegramMessageId)]
       \o newRows(m, added, t)

(* loadPostedTokens: the rows not older than the retention period *)
validRows(rows, t) ==
  SelectSeq(rows, LAMBDA token : token.timestamp >= cutoffDate(t))

(* The file is empty, or holds one row written at time 0 *)
FileInit ==
  /\ variant = "file"
  /\ records \in {<<>>} \cup {<<Row(a, 0, MIN_MCAP("file"), 1)>> : a \in Addresses}
  /\ store = tokenMap(records)
  /\ now = 0
  /\ ticks = 0
  /\ runs = 0
  /\ file = "list"
  /\ mem = EmptyMap
  /\ order = <<>>
  /\ pc = "idle"
  /\ tokens = <<>>
  /\ cidx = 1
  /\ status = "none"
  /\ loadOk = TRUE
  /\ storeAtStart = EmptyMap
  /\ runLog = <<>>
  /\ missedNew = FALSE
  /\ missedFollowUp = FALSE
  /\ announced = [a \in Addresses |-> 0]
  /\ noData = FALSE
  /\ firstMcap = [a \in Addresses |-> 0]
  /\ currentMcap = 0
  /\ initialMcap = 0
  /\ multiplier = 0
  /\ upstream = <<>>
  /\ passes = <<>>
  /\ posts = [a \in Addresses |-> 0]

FileTick ==
  /\ pc = "idle"
  /\ ticks < MaxTicks
  /\ \E d \in TickDeltas : now' = now + d
  /\ ticks' = ticks + 1
  /\ UNCHANGED <<currentMcap, initialMcap, multiplier, upstream, passes, posts, records, variant,
                 runs, store, file, mem, order, pc, tokens, cidx, status, loadOk,
                 storeAtStart, runLog, missedNew, missedFollowUp, announced,
                 noData, firstMcap>>

(* loadPostedTokens: "ok", the file is read and, when a row is old, the    *)
(* valid rows are written back; "reset", the file is missing, empty or not *)
(* an array and [] is written; "error", any other failure, or a failure of *)
(* the write: an empty mapping and the file as it was                      *)
FileLoad ==
  /\ pc = "idle"
  /\ runs < MaxRuns
  /\ \E how \in {"ok", "reset", "error"} :
       LET valid == validRows(records, now) IN
       /\ records' = CASE how = "ok" -> IF Len(valid) # Len(records)
                                          THEN valid ELSE records
                        [] how = "reset" -> <<>>
                        [] how = "error" -> records
       /\ mem' = IF how = "ok" THEN tokenMap(valid) ELSE EmptyMap
       /\ order' = IF how = "ok" THEN mapKeys(valid) ELSE <<>>
       /\ loadOk' = (how = "ok")
  /\ store' = tokenMap(records')
  /\ storeAtStart' = store
  /\ runs' = runs + 1
  /\ pc' = "loop"
  /\ status' = "running"
  /\ UNCHANGED <<currentMcap, initialMcap, multiplier, upstream, passes, posts, variant, now,
                 ticks, file, tokens, cidx, runLog, missedNew, missedFollowUp,
                 announced, noData, firstMcap>>

(* postedTokens.set(address, result); await savePostedTokens(postedTokens) *)
(* for an address that is not in the mapping; the write of the file        *)
(* succeeds or fails                                                       *)
FileSave ==
  /\ pc = "loop"
  /\ \E a \in Addresses \ DOMAIN mem : \E written \in BOOLEAN :
       /\ mem' = MapSet(mem, a, NewEntry(variant, Data(MIN_MCAP(variant), "ok"), 1))
       /\ order' = Append(order, a)
       /\ records' = IF written
                       THEN updatedTokens(records, mem', order', now)
                       ELSE records
  /\ store' = tokenMap(records')
  /\ UNCHANGED <<currentMcap, initialMcap, multiplier, upstream, passes, posts, variant, now, runs,
                 ticks, file, pc, tokens, cidx, status, loadOk, storeAtStart,
                 runLog, missedNew, missedFollowUp, announced, noData, firstMcap>>

(* The invocation ends *)
FileFinish ==
  /\ pc = "loop"
  /\ pc' = "idle"
  /\ status' = "completed"
  /\ UNCHANGED <<currentMcap, initialMcap, multiplier, upstream, passes, posts, records, variant,
                 now, runs, ticks, store, file, mem, order, tokens, cidx, loadOk,
                 storeAtStart, runLog, missedNew, missedFollowUp, announced,
                 noData, firstMcap>>

FileNext == FileTick \/ FileLoad \/ FileSave \/ FileFinish

FileSpec == FileInit /\ [][FileNext]_vars

-----------------------------------------------------------------------------
(* The repeating timer of part_003 and index.js, taken alone, in a process *)
(* whose main has completed.  setInterval calls the checker every          *)
(* CHECK_INTERVAL_MINUTES; the checker is an async function, so the call   *)
(* returns at its first await and the timer does not wait for the pass to  *)
(* end.  A pass runs from one await on the network to the next in one      *)
(* step; how long an answer takes is not bounded (no timeout is set), so   *)
(* the timer can fire between any two steps.  The file operations of a     *)
(* pass are taken together with the step they follow.                      *)

MaxPasses == 2

(* What a timer pass leaves alone *)
mainState ==
  <<currentMcap, initialMcap, multiplier, upstream, records, posts, variant, now,
    runs, ticks, file, mem, order, pc, tokens, cidx, status, loadOk, storeAtStart,
    missedNew, missedFollowUp, announced, noData, firstMcap>>

NoBest == "none"

TerminalPositions == {"done", "saved", "unsaved"}

(* A pass: where it is; its postedTokens; the addresses it has yet to      *)
(* examine; eligibleTokens (index.js); bestToken.address (index.js); the   *)
(* market cap of the currentTokenData it is about to report                *)
Pass(pos, map, left, eligible, best, mcap) ==
  [pos |-> pos, map |-> map, left |-> left, eligible |-> eligible,
   best |-> best, mcap |-> mcap]

(* bestToken: the token with the highest currentMcap among those not yet   *)
(* tweeted, or, when all are tweeted, among the tweeted; the sort is       *)
(* stable, so of two equal ones the first pushed                           *)
bestToken(eligible) ==
  LET untweeted == SelectSeq(eligible, LAMBDA token : ~token.tweeted)
      pool == IF untweeted # <<>> THEN untweeted ELSE eligible
      first == CHOOSE i \in 1..Len(pool) :
                 /\ \A j \in 1..Len(pool) : pool[j].currentMcap <= pool[i].currentMcap
                 /\ \A j \in 1..(i - 1) : pool[j].currentMcap < pool[i].currentMcap
  IN pool[first].address

(* checkAndPostToTwitter: multiplier = currentMcap / initialMcap, not      *)
(* rounded; if (multiplier >= 2 && telegramMessageId)                      *)
isTweetable(e, data) ==
  /\ ~data.isNull
  /\ data.mcap > 0
  /\ e.initialMcap > 0
  /\ data.mcap >= 2 * e.initialMcap
  /\ e.telegramMessageId # NoId

(* The pass after the iteration for the head of p.left, with eligibleTokens *)
(* now elig: the next iteration, or the end of the loop, where index.js     *)
(* picks bestToken and calls sendToTwitter, which awaits fetchDexData       *)
Advance(v, p, elig) ==
  LET rest == Tail(p.left) IN
  IF rest # <<>>
    THEN Pass("fetch", p.map, rest, elig, NoBest, 0)
    ELSE IF v = "twitter" /\ elig # <<>>
      THEN Pass("refetch", p.map, rest, elig, bestToken(elig), 0)
      ELSE Pass("done", p.map, rest, elig, NoBest, 0)

(* The pass when its loadPostedTokens has returned the mapping m *)
StartPass(m) ==
  Pass(IF DOMAIN m = {} THEN "done" ELSE "fetch", m, KeysInOrder(DOMAIN m),
       <<>>, NoBest, 0)

(* The answers of fetchDexData that matter to a pass *)
TimerData(v) == {d \in fetchDexData(v) : d.isNull \/ d.links = "ok"}

IdOf(a) == CHOOSE i \in 1..Len(AddrSeq) : AddrSeq[i] = a

(* main has completed; the file holds the entries main has saved for some  *)
(* addresses, announced at the least eligible market cap                   *)
TimerInit ==
  /\ variant \in {"timer", "twitter"}
  /\ \E S \in (SUBSET Addresses) \ {{}} :
       store = savePostedTokens(variant, EmptyMap,
                 [a \in S |-> NewEntry(variant, Data(MIN_MCAP(variant), "ok"), IdOf(a))],
                 0)
  /\ passes = <<>>
  /\ posts = [a \in Addresses |-> 0]
  /\ runLog = <<>>
  /\ now = 0
  /\ ticks = 0
  /\ runs = 1
  /\ file = "list"
  /\ mem = EmptyMap
  /\ order = <<>>
  /\ pc = "idle"
  /\ tokens = <<>>
  /\ cidx = 1
  /\ status = "ok"
  /\ loadOk = TRUE
  /\ storeAtStart = EmptyMap
  /\ missedNew = FALSE
  /\ missedFollowUp = FALSE
  /\ announced = [a \in Addresses |-> 0]
  /\ noData = FALSE
  /\ firstMcap = [a \in Addresses |-> 0]
  /\ currentMcap = 0
  /\ initialMcap = 0
  /\ multiplier = 0
  /\ upstream = <<>>
  /\ records = <<>>

(* setInterval(checkAndPostMCAP / checkAndPostToTwitter, ...): the timer   *)
(* fires and a pass starts with its own loadPostedTokens, whatever the     *)
(* passes started before are doing                                         *)
Interval ==
  /\ Len(passes) < MaxPasses
  /\ \E ok \in BOOLEAN :
       /\ passes' = Append(passes, StartPass(loadPostedTokens(variant, store, now, ok)))
       /\ store' = StoreAfterLoad(variant, store, now, ok, 0)
  /\ UNCHANGED <<mainState, runLog>>

(* const currentTokenData = await fetchDexData(address) returns *)
PassFetch ==
  \E i \in 1..Len(passes) :
  LET p == passes[i]
      a == Head(p.left)
      e == p.map[a]
  IN
  /\ p.pos = "fetch"
  /\ \E data \in TimerData(variant) :
       passes' = [passes EXCEPT ![i] =
         IF variant = "timer"
           THEN IF ~data.isNull
                   /\ ShouldFollowUp(variant, e, Multiplier(data.mcap, e.initialMcap))
                  THEN Pass("send", p.map, p.left, p.eligible, NoBest, data.mcap)
                  ELSE Advance(variant, p, p.eligible)
           ELSE IF isTweetable(e, data)
                  THEN Advance(variant, p,
                         Append(p.eligible,
                                [address |-> a, currentMcap |-> data.mcap,
                                 tweeted |-> e.tweeted]))
                  ELSE Advance(variant, p, p.eligible)]
  /\ UNCHANGED <<mainState, store, runLog>>

(* part_003: await sendToTelegram(currentTokenData, multiplier) returns *)
PassSend ==
  \E i \in 1..Len(passes) :
  LET p == passes[i]
      a == Head(p.left)
      e == p.map[a]
  IN
  /\ p.pos = "send"
  /\ \E out \in {"delivered", "failed"} :
       runLog' = Append(runLog,
                   Msg("followup", a, Data(p.mcap, "ok"),
                       Multiplier(p.mcap, e.initialMcap), ReplyTarget(variant, e), out,
                       IF out = "delivered" THEN FreshId(store, mem, runLog) ELSE NoId))
  /\ passes' = [passes EXCEPT ![i] = Advance(variant, p, p.eligible)]
  /\ UNCHANGED <<mainState, store>>

(* sendToTwitter: await fetchDexData(tokenAddress) returns; no data or a   *)
(* rounded multiplier below 2 ends the call                                *)
PassRefetch ==
  \E i \in 1..Len(passes) :
  LET p == passes[i]
      e == p.map[p.best]
  IN
  /\ p.pos = "refetch"
  /\ \E data \in TimerData(variant) :
       passes' = [passes EXCEPT ![i] =
         IF ~data.isNull /\ Multiplier(data.mcap, e.initialMcap) >= 2
           THEN [p EXCEPT !.pos = "tweet", !.mcap = data.mcap]
           ELSE [p EXCEPT !.pos = "done"]]
  /\ UNCHANGED <<mainState, store, runLog>>

(* sendToTwitter: await twitterClient.v2.tweet(tweetContent) returns or    *)
(* throws into the catch block.  After a tweet: loadPostedTokens, set      *)
(* tweeted: true in that mapping, savePostedTokens(postedTokens), whose    *)
(* failure is caught; the pass ends "saved" or "unsaved".                  *)
PassTweet ==
  \E i \in 1..Len(passes) :
  LET p == passes[i]
      e == p.map[p.best]
  IN
  /\ p.pos = "tweet"
  /\ \E out \in {"delivered", "failed"} : \E ok \in BOOLEAN :
     \E sv \in SaveOutcomes(variant, file) :
       LET m == loadPostedTokens(variant, store, now, ok)
           m2 == IF p.best \in DOMAIN m
                   THEN [m EXCEPT ![p.best].tweeted = TRUE]
                   ELSE m
           saves == out = "delivered" /\ p.best \in DOMAIN m
       IN
       /\ (out = "failed") => (ok /\ sv = "ok")
       /\ ~saves => sv = "ok"
       /\ runLog' = Append(runLog,
                      Msg("tweet", p.best, Data(p.mcap, "ok"),
                          Multiplier(p.mcap, e.initialMcap), e.telegramMessageId,
                          out, NoId))
       /\ store' = IF saves /\ Written(sv)
                     THEN savePostedTokens(variant, store, m2, now)
                     ELSE store
       /\ passes' = [passes EXCEPT ![i].pos =
                       IF ~saves THEN "done"
                       ELSE IF Written(sv) THEN "saved" ELSE "unsaved"]
  /\ UNCHANGED mainState

TimerNext == Interval \/ PassFetch \/ PassSend \/ PassRefetch \/ PassTweet

TimerSpec == TimerInit /\ [][TimerNext]_vars

-----------------------------------------------------------------------------
(* The Firestore variant under its recency window, with a store whose      *)
(* reads and writes succeed: the upstream API lists each address with one  *)
(* graduatedAt that does not change, and fetchTokens is computed from that *)
(* list at the time of each invocation.                                    *)

(* The upstream lists: each address at most once, graduated at hour 0 or 1 *)
WindowLists ==
  {recs \in UpstreamLists :
     /\ \A i \in 1..Len(recs) : recs[i].address \in Addresses /\ recs[i].time \in 0..1
     /\ \A i, j \in 1..Len(recs) : i # j => recs[i].address # recs[j].address}

WindowInit ==
  /\ variant = "firestore"
  /\ upstream \in WindowLists
  /\ now = 0
  /\ ticks = 0
  /\ runs = 0
  /\ store = EmptyMap
  /\ file = "list"
  /\ mem = EmptyMap
  /\ order = <<>>
  /\ pc = "idle"
  /\ tokens = <<>>
  /\ cidx = 1
  /\ status = "none"
  /\ loadOk = TRUE
  /\ storeAtStart = EmptyMap
  /\ runLog = <<>>
  /\ missedNew = FALSE
  /\ missedFollowUp = FALSE
  /\ announced = [a \in Addresses |-> 0]
  /\ noData = FALSE
  /\ firstMcap = [a \in Addresses |-> 0]
  /\ currentMcap = 0
  /\ initialMcap = 0
  /\ multiplier = 0
  /\ records = <<>>
  /\ passes = <<>>
  /\ posts = [a \in Addresses |-> 0]

(* The next invocation is an hour later, or the retention period later, or *)
(* an hour more than that                                                  *)
WindowTick ==
  /\ pc = "idle"
  /\ ticks < MaxTicks
  /\ \E d \in {1} \cup TickDeltas : now' = now + d
  /\ ticks' = ticks + 1
  /\ UNCHANGED <<locals, variant, runs, store, file, mem, order, pc, tokens, cidx,
                 status, loadOk, storeAtStart, runLog, missedNew, missedFollowUp,
                 announced, noData, firstMcap>>

(* loadPostedTokens, when the reads and deletes of the store succeed *)
WindowLoad == Load /\ loadOk'

(* The step has not ended in an exception of the store: main fails only    *)
(* when sendToTelegram throws                                              *)
StoreSucceeds ==
  status' = "crashed" => runLog'[Len(runLog')].outcome = "threw"

(* The new-post iteration, when the write of savePostedTokens succeeds; a  *)
(* delivered announcement is counted                                       *)
WindowLoopPost ==
  /\ LoopPostStep
  /\ StoreSucceeds
  /\ posts' = IF runLog'[Len(runLog')].outcome = "delivered"
                THEN [posts EXCEPT ![Head(tokens)] = @ + 1]
                ELSE posts
  /\ UNCHANGED <<currentMcap, initialMcap, multiplier, upstream, records, passes>>

(* The checker iteration that posts, when the write of savePostedTokens    *)
(* succeeds                                                                *)
WindowCheckPost == CheckPost /\ StoreSucceeds

WindowNext ==
  \/ WindowTick
  \/ WindowLoad
  \/ FetchRecords
  \/ LoopSkip
  \/ WindowLoopPost
  \/ LoopEnd
  \/ CheckSkip
  \/ WindowCheckPost
  \/ CheckEnd
  \/ Finish

WindowSpec == WindowInit /\ [][WindowNext]_vars

-----------------------------------------------------------------------------
(* The part_000 variants invoked again and again on a candidate list that  *)
(* does not change: the scheduler starts an invocation whenever the        *)
(* previous one has ended, the upstream answer is the same in every        *)
(* invocation, every candidate has market data that is eligible, the       *)
(* store works, and Telegram accepts the announcement of every address     *)
(* but B, whose announcement it rejects every time.                        *)

Undeliverable == {"B"}

(* The candidates: the addresses fetchTokens returns *)
Candidates ==
  UNION {{ts[i] : i \in 1..Len(ts)} : ts \in FetchedTokens(variant, upstream, now)}

RepeatInit ==
  /\ variant \in {"firestore", "file"}
  /\ upstream \in {recs \in WindowLists : \A i \in 1..Len(recs) : recs[i].time = 0}
  /\ now = 0
  /\ ticks = 0
  /\ runs = 0
  /\ store = EmptyMap
  /\ file = "list"
  /\ mem = EmptyMap
  /\ order = <<>>
  /\ pc = "idle"
  /\ tokens = <<>>
  /\ cidx = 1
  /\ status = "none"
  /\ loadOk = TRUE
  /\ storeAtStart = EmptyMap
  /\ runLog = <<>>
  /\ missedNew = FALSE
  /\ missedFollowUp = FALSE
  /\ announced = [a \in Addresses |-> 0]
  /\ noData = FALSE
  /\ firstMcap = [a \in Addresses |-> 0]
  /\ currentMcap = 0
  /\ initialMcap = 0
  /\ multiplier = 0
  /\ records = <<>>
  /\ passes = <<>>
  /\ posts = [a \in Addresses |-> 0]

(* The next invocation: loadPostedTokens reads the store *)
RepeatLoad == LoadStep /\ loadOk' /\ UNCHANGED runs

(* fetchTokens gets the answer of the upstream API *)
RepeatFetch == FetchRecords /\ ~noData'

(* The loop skips an address it has in postedTokens; every other candidate *)
(* has eligible market data                                                *)
RepeatLoopSkip == LoopSkip /\ Head(tokens) \in DOMAIN mem

(* sendToTelegram delivers unless the address is undeliverable; the store  *)
(* is written                                                              *)
RepeatLoopPost ==
  /\ LoopPostStep
  /\ StoreSucceeds
  /\ runLog'[Len(runLog')].outcome = "delivered" <=> Head(tokens) \notin Undeliverable
  /\ posts' = IF runLog'[Len(runLog')].outcome = "delivered" /\ posts[Head(tokens)] = 0
                THEN [posts EXCEPT ![Head(tokens)] = 1]
                ELSE posts
  /\ UNCHANGED <<currentMcap, initialMcap, multiplier, upstream, records, passes>>

RepeatNext ==
  \/ RepeatLoad
  \/ RepeatFetch
  \/ RepeatLoopSkip
  \/ RepeatLoopPost
  \/ LoopEnd
  \/ CheckSkip
  \/ WindowCheckPost
  \/ CheckEnd
  \/ Finish

(* Every step of an invocation is taken, and so is the start of the next   *)
(* invocation: the process runs on and the scheduler keeps invoking it     *)
RepeatSpec == RepeatInit /\ [][RepeatNext]_vars /\ WF_vars(RepeatNext)

-----------------------------------------------------------------------------
(* Properties *)

(* The message the step, if it called sendToTelegram, has added to runLog *)
Delivered(msg, kind) == msg.kind = kind /\ msg.outcome = "delivered"

FreshAtStart(a) ==
  a \in DOMAIN storeAtStart /\ isValid(storeAtStart[a], now)

(* C1: in every invocation, no new-token announcement is delivered for an  *)
(* address that had an entry at most seven days old in the persisted store *)
(* when the invocation started, whatever loadPostedTokens returned.        *)
C1_NoRepostOfFreshEntry ==
  \A i \in 1..Len(runLog) :
    Delivered(runLog[i], "new") => ~FreshAtStart(runLog[i].address)

(* C2: no step of a Multiplier Checker pass changes the initialMcap of an  *)
(* entry of the persisted store.                                           *)
C2_InitialMcapFixed ==
  [][InChecker =>
       \A a \in Addresses :
         (a \in DOMAIN store /\ a \in DOMAIN store')
           => store'[a].initialMcap = store[a].initialMcap]_vars

(* C3: in the Firestore variant, at the end of an invocation the           *)
(* maxMultiplier of every persisted entry that was in the store (and not   *)
(* expired) at its start is at least 1 and not less than it was then.      *)
C3_MaxMultiplierMonotone ==
  (variant = "firestore" /\ pc = "done") =>
    \A a \in DOMAIN store :
      /\ store[a].maxMultiplier >= 1
      /\ FreshAtStart(a) => store[a].maxMultiplier >= storeAtStart[a].maxMultiplier

(* C4: when loadPostedTokens has returned, neither the mapping it returned *)
(* nor the persisted store holds an entry whose timestamp is before        *)
(* now - 7 days.                                                           *)
C4_NoExpiredAfterLoad ==
  pc = "fetch" =>
    /\ \A a \in DOMAIN mem : isValid(storeAtStart[a], now)
    /\ \A a \in DOMAIN store : isValid(store[a], now)

(* C5: every delivered follow-up announces a multiplier greater than every *)
(* multiplier delivered for the same address before.                       *)
C5_AnnouncedStrictlyIncreasing ==
  [][(Len(runLog') = Len(runLog) + 1 /\ Delivered(runLog'[Len(runLog')], "followup"))
       => runLog'[Len(runLog')].multiplier
            > announced[runLog'[Len(runLog')].address]]_vars

(* The calls of sendToTelegram of the invocation that announce a new token *)
NewPosts == SelectSeq(runLog, LAMBDA msg : msg.kind = "new")

(* The step has called sendToTelegram *)
Sending == Len(runLog') = Len(runLog) + 1

(* C6: in a Multiplier Checker pass of the Firestore variant a follow-up   *)
(* is sent for an entry exactly when its market data is non-null, its      *)
(* telegramMessageId is non-null and the multiplier is >= 2 and greater    *)
(* than the entry's maxMultiplier; a delivered follow-up leaves the        *)
(* entry's maxMultiplier, in memory and persisted, equal to the            *)
(* multiplier, and an undelivered one leaves the entry as it was.          *)
C6_FollowUpContract ==
  [][variant = "firestore" =>
       /\ ~missedFollowUp'
       /\ (Sending /\ runLog'[Len(runLog')].kind = "followup") =>
            LET msg == runLog'[Len(runLog')]
                a == msg.address
            IN
            /\ mem[a].telegramMessageId # NoId
            /\ msg.multiplier = Multiplier(msg.mcap, mem[a].initialMcap)
            /\ msg.multiplier >= 2
            /\ msg.multiplier > mem[a].maxMultiplier
            /\ msg.outcome = "delivered" =>
                 /\ mem'[a].maxMultiplier = msg.multiplier
                 /\ a \in DOMAIN store'
                 /\ store'[a].maxMultiplier = msg.multiplier
            /\ msg.outcome # "delivered" => (mem' = mem /\ store' = store)]_vars

(* C7: in one invocation of main, in every variant, sendToTelegram is      *)
(* called for at most one new token and at most one address is added to    *)
(* the persisted store, the one of that call.                              *)
C7_AtMostOneNewPost ==
  pc # "idle" =>
    /\ Len(NewPosts) <= 1
    /\ Cardinality((DOMAIN store) \ (DOMAIN storeAtStart)) <= 1
    /\ \A a \in (DOMAIN store) \ (DOMAIN storeAtStart) :
         Len(NewPosts) = 1 /\ NewPosts[1].address = a

(* An invocation that visited further candidates would have had room for a *)
(* second post: the store held an entry, and the invocation announced a    *)
(* token and added its address.                                            *)
C7_Witness ==
  /\ storeAtStart # EmptyMap
  /\ Len(NewPosts) = 1
  /\ NewPosts[1].outcome = "delivered"
  /\ (DOMAIN store) \ (DOMAIN storeAtStart) = {NewPosts[1].address}

(* C8: in every variant, a new-token announcement whose Telegram call      *)
(* fails leaves the persisted store as it was before the attempt.          *)
C8_FailedDeliveryNotRecorded ==
  [][(Sending /\ runLog'[Len(runLog')].kind = "new"
        /\ runLog'[Len(runLog')].outcome = "failed")
       => store' = store]_vars

(* C9: sendToTelegram is called for a new token only with a market cap     *)
(* within MIN_MCAP..MAX_MCAP (inclusive; no upper bound without MAX_MCAP)  *)
(* and at least one social link, and the loop never passes over an unseen  *)
(* candidate whose market data meets these criteria.                       *)
C9_AnnouncedIffEligible ==
  /\ ~missedNew
  /\ \A i \in 1..Len(runLog) :
       runLog[i].kind = "new" =>
         /\ MIN_MCAP(variant) <= runLog[i].mcap
         /\ HasMax(variant) => runLog[i].mcap <= MAX_MCAP(variant)
         /\ runLog[i].links # "none"

(* A token is announced at exactly the lower bound, and one at exactly the *)
(* upper bound                                                             *)
C9_Witness ==
  /\ HasMax(variant)
  /\ Len(NewPosts) = 1
  /\ NewPosts[1].outcome = "delivered"
  /\ NewPosts[1].mcap = MAX_MCAP(variant)
  /\ \E a \in DOMAIN storeAtStart : storeAtStart[a].initialMcap = MIN_MCAP(variant)

(* C10: in the Firestore and file-store variants, an invocation that       *)
(* started with an empty store, delivered the announcement of an address   *)
(* with market cap m and saw no other market cap ends with exactly one     *)
(* message sent and exactly one entry in the store, for that address, with *)
(* initialMcap = m, maxMultiplier 1 or absent, and the id of the message.  *)
C10_FirstPostScenario ==
  (/\ pc = "done"
   /\ variant \in {"firestore", "file"}
   /\ storeAtStart = EmptyMap
   /\ Len(runLog) >= 1
   /\ Delivered(runLog[1], "new")
   /\ \A i \in 1..Len(runLog) : runLog[i].mcap = runLog[1].mcap)
    => /\ Len(runLog) = 1
       /\ DOMAIN store = {runLog[1].address}
       /\ store[runLog[1].address].initialMcap = runLog[1].mcap
       /\ store[runLog[1].address].maxMultiplier \in {0, 1}
       /\ store[runLog[1].address].telegramMessageId = runLog[1].id

(* C11: a step of an invocation that calls savePostedTokens (every step    *)
(* after the load that changes the store) leaves the timestamp and the     *)
(* initialMcap of every entry already in the store as they were, removes   *)
(* no entry, and adds only addresses of the in-memory mapping, each with   *)
(* timestamp = now; in the file-store variants and the Firestore variant.  *)
C11_SaveMerges ==
  [][(pc # "idle" /\ store' # store) =>
       /\ \A a \in DOMAIN store :
            /\ a \in DOMAIN store'
            /\ store'[a].timestamp = store[a].timestamp
            /\ store'[a].initialMcap = store[a].initialMcap
       /\ \A a \in (DOMAIN store') \ (DOMAIN store) :
            a \in DOMAIN mem' /\ store'[a].timestamp = now]_vars

(* C12: in every file-store variant, a loadPostedTokens that reads a       *)
(* posted_tokens.json that is missing, empty, not JSON or not a list does  *)
(* not raise, returns an empty collection and leaves the file reset to an  *)
(* empty list.                                                             *)
C12_LoadResetsBadFile ==
  [][(pc = "idle" /\ pc' # "idle" /\ variant # "firestore" /\ file # "list"
        /\ loadOk')
       => /\ status' # "crashed"
          /\ mem' = EmptyMap
          /\ file' = "list"]_vars

(* C13: no call of sendToTelegram raises to its caller, whatever the       *)
(* snapshot: every call ends delivered or failed (null returned).          *)
C13_NotifierNeverRaises ==
  \A i \in 1..Len(runLog) : runLog[i].outcome \in {"delivered", "failed"}

(* C14: in every variant, once main has completed the process has no      *)
(* pending work and has exited: between invocations no process is alive    *)
(* (status "ok" between invocations is a process waiting for its timer).   *)
C14_ExitsAfterMain ==
  pc = "idle" => status = "none"

(* C16: an upstream call that comes back without data (fetchTokens failed, *)
(* fetchDexData returned null) sends no message, changes neither the store *)
(* nor the mapping and does not abort the run: after a failed fetchTokens  *)
(* the candidate list is empty and main goes on past the new-post loop,    *)
(* which is the only place a new-token announcement is sent from and is    *)
(* entered only from fetchTokens; after a null fetchDexData the loop goes  *)
(* on with the next candidate and the checker with the next entry.         *)
C16_NoDataSkips ==
  [][/\ noData' =>
          /\ runLog' = runLog
          /\ store' = store
          /\ file' = file
          /\ mem' = mem
          /\ status' # "crashed"
          /\ pc = "fetch" => (tokens' = <<>> /\ pc' \in {"check", "done"})
          /\ pc = "loop" => (tokens' = Tail(tokens) /\ pc' = "loop")
          /\ InChecker => (cidx' = cidx + 1 /\ pc' = pc)
     /\ (pc' = "loop" /\ pc # "loop") => (pc = "fetch" /\ ~noData')
     /\ (Sending /\ runLog'[Len(runLog')].kind = "new") => pc = "loop"]_vars

(* The first entry of the mapping was skipped on a null fetchDexData: no   *)
(* follow-up was sent, the run goes on, and the checker is at the next     *)
(* entry                                                                   *)
C16_Witness ==
  /\ noData
  /\ pc = "check"
  /\ status = "running"
  /\ cidx = 2
  /\ Len(order) = 2
  /\ \A i \in 1..Len(runLog) : runLog[i].kind = "new"
  /\ DOMAIN store = DOMAIN mem

(* C15: in the file-store variants (file, Twitter, timer), when            *)
(* savePostedTokens fails on its read after a delivered announcement of an *)
(* address the file lacks (nothing is written), the error reaches main and *)
(* the invocation ends as failed; and a loadPostedTokens whose read fails  *)
(* returns an empty mapping without raising.                               *)
C15_ReadErrors ==
  [][(variant \in {"file", "twitter", "timer"}) =>
       LET msg == runLog'[Len(runLog')]
           saveFailed == Sending /\ Delivered(msg, "new") /\ store' = store
           loadFailed == pc = "idle" /\ pc' # "idle" /\ ~loadOk'
       IN
       /\ (saveFailed /\ msg.address \notin DOMAIN store) => status' = "crashed"
       /\ loadFailed => (mem' = EmptyMap /\ status' # "crashed")]_vars

(* The entry the step's follow-up, if it sent one, was computed from *)
FollowUpStep == Sending /\ runLog'[Len(runLog')].kind = "followup"

(* C17 as stated: a follow-up is sent only when the current market cap is  *)
(* at least twice the entry's stored initialMcap.                          *)
C17_OnlyWhenDoubled ==
  [][FollowUpStep =>
       LET msg == runLog'[Len(runLog')]
       IN msg.mcap >= 2 * mem[msg.address].initialMcap]_vars

(* C17 as amended: a follow-up is sent only when the current market cap    *)
(* divided by the entry's stored initialMcap rounds to at least 2, that    *)
(* is, when it is at least one and a half times a positive initialMcap.    *)
C17_OnlyWhenRoundsToTwo ==
  [][FollowUpStep =>
       LET msg == runLog'[Len(runLog')]
           baseline == mem[msg.address].initialMcap
       IN /\ baseline > 0
          /\ 2 * msg.mcap >= 3 * baseline
          /\ msg.multiplier >= 2]_vars

(* A follow-up was sent for an entry whose market cap is at least one and  *)
(* a half times, but less than twice, its initialMcap                      *)
C17_Witness ==
  /\ variant # "firestore"
  /\ \E i \in 1..Len(runLog) :
       /\ runLog[i].kind = "followup"
       /\ runLog[i].address \in DOMAIN mem
       /\ 2 * runLog[i].mcap >= 3 * mem[runLog[i].address].initialMcap
       /\ runLog[i].mcap < 2 * mem[runLog[i].address].initialMcap

C19_BaselineIsFirstPost ==
  [][(variant = "firestore" /\ FollowUpStep) =>
       LET msg == runLog'[Len(runLog')]
       IN msg.multiplier = Multiplier(msg.mcap, firstMcap[msg.address])]_vars

(* C20: in the Firestore variant the stored telegramMessageId of an        *)
(* address is the id of its new-token announcement from the step that      *)
(* creates the entry on, no step of an invocation changes it, and every    *)
(* follow-up is sent as a reply to it.                                     *)
C20_MessageIdIsOriginal ==
  [][(variant = "firestore" /\ pc # "idle") =>
       LET msg == runLog'[Len(runLog')]
       IN
       /\ \A a \in (DOMAIN store) \cap (DOMAIN store') :
            store'[a].telegramMessageId = store[a].telegramMessageId
       /\ \A a \in (DOMAIN store') \ (DOMAIN store) :
            /\ Sending
            /\ Delivered(msg, "new")
            /\ msg.address = a
            /\ store'[a].telegramMessageId = msg.id
       /\ FollowUpStep =>
            /\ msg.address \in DOMAIN store
            /\ msg.replyTo = store[msg.address].telegramMessageId]_vars

(* C21: the persisted timestamp of an entry is the time the entry was      *)
(* created and no step of an invocation that has read the store changes    *)
(* it: a step that leaves an address in the store leaves its timestamp,    *)
(* and a step that adds an address gives it the current time.              *)
C21_TimestampFixed ==
  [][(pc # "idle" /\ loadOk) =>
       /\ \A a \in (DOMAIN store) \cap (DOMAIN store') :
            store'[a].timestamp = store[a].timestamp
       /\ \A a \in (DOMAIN store') \ (DOMAIN store) :
            store'[a].timestamp = now]_vars

(* C22: when the announcement of an unseen eligible candidate is not       *)
(* delivered (sendToTelegram returns null), the new-post loop goes on with *)
(* the candidates that follow it in the list, within the same invocation.  *)
C22_LoopContinuesAfterFailure ==
  [][(Sending /\ runLog'[Len(runLog')].kind = "new"
        /\ runLog'[Len(runLog')].outcome = "failed") =>
       (pc' = "loop" /\ tokens' = Tail(tokens))]_vars

(* The lists of addresses that take the upstream records with an index in  *)
(* Q once each, in an order in which no record with a parseable timestamp  *)
(* comes before one with a later parseable timestamp                       *)
InTimestampOrder(Q) ==
  LET n == Cardinality(Q)
      late(i, j) == /\ upstream[i].time # BadTime
                    /\ upstream[j].time # BadTime
                    /\ upstream[i].time < upstream[j].time
  IN {[k \in 1..n |-> upstream[p[k]].address] :
        p \in {f \in [1..n -> Q] :
                 /\ \A i, j \in 1..n : i # j => f[i] # f[j]
                 /\ \A i, j \in 1..n : i < j => ~late(f[i], f[j])}}

HasBothFields ==
  {i \in 1..Len(upstream) :
     upstream[i].address # NoAddress /\ upstream[i].time # NoTime}

WithinLastHour ==
  {i \in HasBothFields : upstream[i].time \in (now - 1)..now}

IsSuffix(s, t) == \E k \in 0..Len(t) : s = SubSeq(t, k + 1, Len(t))

(* The new-post loop visits the candidates in the order of the list and    *)
(* announces one only when no candidate before it qualified                *)
AnnouncesFirstQualifying ==
  /\ (pc = "loop" /\ pc' = "loop") => IsSuffix(tokens', Tail(tokens))
  /\ (pc = "loop" /\ Sending) =>
       /\ runLog'[Len(runLog')].kind = "new"
       /\ runLog'[Len(runLog')].address = Head(tokens)
       /\ ~missedNew'

C24_OneRowPerAddress ==
  \A i, j \in 1..Len(records) :
    i # j => records[i].address # records[j].address

(* A save has added a row to a file that held the row of another address,  *)
(* written in an earlier invocation                                        *)
C24_Witness ==
  /\ Len(records) = 2
  /\ runs = 2
  /\ records[1].timestamp < records[2].timestamp
  /\ DOMAIN mem = Addresses

InProgress(p) == p.pos \notin TerminalPositions

(* C25: at no time are two checker passes of one process in progress.      *)
C25_NoOverlap ==
  Cardinality({i \in 1..Len(passes) : InProgress(passes[i])}) <= 1

(* C27: once sendToTwitter has tweeted for an address and saved, the       *)
(* persisted entry of the address has tweeted = true.                      *)
C27_TweetedIsPersisted ==
  \A i \in 1..Len(passes) :
    (passes[i].pos = "saved" /\ passes[i].best \in DOMAIN store) =>
      store[passes[i].best].tweeted

(* C26: in every variant with a Multiplier Checker, when an invocation     *)
(* ends the checker has examined every stored entry: every address of the  *)
(* store is among the entries of the mapping the checker has gone through. *)
C26_CheckerVisitsEveryEntry ==
  (pc = "done" /\ (HasChecker(variant) \/ HasTimer(variant))) =>
    \A a \in DOMAIN store :
      \/ \E i \in 1..(cidx - 1) : order[i] = a
      \/ \E k \in 1..Len(runLog) :
           runLog[k].kind = "followup" /\ runLog[k].address = a

(* C28: in the Firestore variant, when the reads and writes of the store   *)
(* succeed and each address has one graduatedAt, no address gets more than *)
(* one delivered new-token announcement, ever.                             *)
C28_AtMostOneAnnouncement ==
  \A a \in Addresses : posts[a] <= 1

(* An address was announced, its entry has been pruned, and an invocation  *)
(* after that has completed                                                *)
C28_Witness ==
  /\ posts["A"] = 1
  /\ "A" \notin DOMAIN store
  /\ runs = 2
  /\ pc = "done"
  /\ status = "ok"

(* C29: under repeated invocations on a fixed candidate list, every        *)
(* candidate whose announcement Telegram would deliver is eventually       *)
(* announced, whatever happens to the announcements of other candidates.   *)
C29_EventuallyAnnounced ==
  \A a \in Addresses \ Undeliverable :
    [](a \in Candidates => <>(posts[a] > 0))

(* C30: when an invocation ends, every address whose new-token             *)
(* announcement was delivered in it has an entry in the persisted store.   *)
C30_DeliveredIsPersisted ==
  pc = "done" =>
    \A i \in 1..Len(runLog) :
      Delivered(runLog[i], "new") => runLog[i].address \in DOMAIN store

====
